---- MODULE Spec2Model ----
(***************************************************************************)
(* Cold-email generator: the Flask facade (app.py) and the provider chain  *)
(* (chains.py).  Python values are tagged records, text is TLA+ strings,   *)
(* exceptions are records carrying their message and the place that        *)
(* raised them.                                                            *)
(***************************************************************************)
EXTENDS Integers, Sequences, FiniteSets, TLC

\* ------------------------------------------------------------------ bounds
\* Longest job list a model answer holds.
MaxJobs == 2
\* Requests one worker thread serves in a behaviour.
MaxRequests == 2
\* Worker threads of the web server.
NumThreads == 2
\* Longest text and longest list normalize_skills is given.
MaxStrLen == 3
MaxListLen == 2

Threads == 1..NumThreads

\* ----------------------------------------------------------- Python values
PyNone == [t |-> "None"]
PyStr(s) == [t |-> "str", v |-> s]
PyInt(n) == [t |-> "int", v |-> n]
PyBool(b) == [t |-> "bool", v |-> b]
PyList(q) == [t |-> "list", v |-> q]
PyDict(d) == [t |-> "dict", v |-> d]

\* Python truthiness, as `or`, `if x` and `not x` use it.
Truthy(x) ==
    CASE x.t = "None" -> FALSE
      [] x.t = "str" -> x.v # ""
      [] x.t = "int" -> x.v # 0
      [] x.t = "bool" -> x.v
      [] x.t = "list" -> Len(x.v) > 0
      [] x.t = "dict" -> DOMAIN x.v # {}
      [] OTHER -> TRUE

\* a or b
PyOr(a, b) == IF Truthy(a) THEN a ELSE b

\* ------------------------------------------------------------------ text
UpperChars == "ABCDEFGHIJKLMNOPQRSTUVWXYZ"
LowerChars == "abcdefghijklmnopqrstuvwxyz"

LowerChar(c) ==
    IF \E i \in 1..Len(UpperChars) : SubSeq(UpperChars, i, i) = c
    THEN LET i == CHOOSE j \in 1..Len(UpperChars) : SubSeq(UpperChars, j, j) = c
         IN SubSeq(LowerChars, i, i)
    ELSE c

\* str.lower()
RECURSIVE Lower(_)
Lower(s) == IF s = "" THEN "" ELSE LowerChar(Head(s)) \o Lower(Tail(s))

IsSpace(c) == c \in {" ", "\t", "\n"}

RECURSIVE LStrip(_)
LStrip(s) == IF s # "" /\ IsSpace(Head(s)) THEN LStrip(Tail(s)) ELSE s

RECURSIVE RStrip(_)
RStrip(s) ==
    IF s # "" /\ IsSpace(SubSeq(s, Len(s), Len(s)))
    THEN RStrip(SubSeq(s, 1, Len(s) - 1))
    ELSE s

\* str.strip()
Strip(s) == RStrip(LStrip(s))

\* k in msg
Contains(msg, k) ==
    \E i \in 1..(Len(msg) - Len(k) + 1) : SubSeq(msg, i, i + Len(k) - 1) = k

StartsWith(s, p) == Len(s) >= Len(p) /\ SubSeq(s, 1, Len(p)) = p

\* --------------------------------------------------------------- secrets
BaseSlot == "GROQ_API_KEY"
FastSlot == "GROQ_API_KEY_FAST"
HeavySlot == "GROQ_API_KEY_HEAVY"
GeminiSlot == "GEMINI_API_KEY"
Slots == {BaseSlot, FastSlot, HeavySlot, GeminiSlot}

VARIABLES
    st,             \* the streamlit module: PyNone, or its secrets mapping
    environ,        \* os.environ after load_dotenv(): slot -> PyNone | PyStr
    _HAS_GEMINI,    \* whether langchain_google_genai imported
    csv_exists      \* whether my_portfolio.csv is found

VARIABLES
    _chain,                 \* app._chain: PyNone or a Chain instance
    _portfolio,             \* app._portfolio: PyNone or a Portfolio instance
    chain_ctor_calls,       \* history: how often Chain() was called
    portfolio_ctor_calls,   \* history: how often Portfolio() was called
    fetch_calls             \* history: how many pages were fetched

VARIABLES
    pc,         \* per thread: where the /generate handler stands
    data,       \* per thread: the request's JSON body
    loc,        \* per thread: the handler's locals
    call,       \* per thread: the frame of the running extract_jobs / write_mail
    resp,       \* per thread: the response returned, PyNone while running
    served      \* per thread: requests answered so far

VARIABLES
    raw,        \* normalize_skills: the argument
    skills_out  \* normalize_skills: the value returned, PyNone before the call

config == <<st, environ, _HAS_GEMINI, csv_exists>>
globals == <<_chain, _portfolio, chain_ctor_calls, portfolio_ctor_calls, fetch_calls>>
threads == <<pc, data, loc, call, resp, served>>
skillvars == <<raw, skills_out>>
vars == <<config, globals, threads, skillvars>>

\* ------------------------------------------------------------ exceptions
\* An exception object: its class, str(e), and (its identity within one
\* chain call) the attempt and the try that raised it, 0 outside a call.
Exc(type, msg, att, try) == [t |-> "exc", type |-> type, msg |-> msg, att |-> att, try |-> try]

Return(v) == [ok |-> TRUE, val |-> v]
Raise(e) == [ok |-> FALSE, err |-> e]

\* _get_secret(name)
_get_secret(name) ==
    LET val == IF Truthy(st) THEN st.secrets[name] ELSE PyNone
    IN PyOr(val, environ[name])

\* ------------------------------------------------------------------ Chain
NoKeyMsg == "No API key found. Add GROQ_API_KEY or GEMINI_API_KEY in secrets or .env"

ChainObject(fast_key, heavy_key, gemini_key) ==
    [t |-> "Chain", id |-> 0,
     fast_key |-> fast_key, heavy_key |-> heavy_key, gemini_key |-> gemini_key,
     fast_model |-> "llama-3.1-8b-instant",
     heavy_model |-> "llama-3.3-70b-versatile",
     gemini_model |-> "gemini-1.5-flash"]

\* A constructor whose heavy-tier key does not fall back to the base key.
ChainInit_NoHeavyFallback ==
    LET base_key == _get_secret(BaseSlot)
        fast_key == PyOr(_get_secret(FastSlot), base_key)
        heavy_key == _get_secret(HeavySlot)
        gemini_key == _get_secret(GeminiSlot)
    IN IF ~(Truthy(fast_key) \/ Truthy(heavy_key) \/ Truthy(gemini_key))
       THEN Raise(Exc("ValueError", NoKeyMsg, 0, 0))
       ELSE Return(ChainObject(fast_key, heavy_key, gemini_key))

\* A constructor without the check for missing keys.
ChainInit_NoCheck ==
    LET base_key == _get_secret(BaseSlot)
    IN Return(ChainObject(PyOr(_get_secret(FastSlot), base_key),
                          PyOr(_get_secret(HeavySlot), base_key),
                          _get_secret(GeminiSlot)))

\* Chain.__init__: the instance, or the ValueError it raises.
ChainInit ==
    LET base_key == _get_secret(BaseSlot)
        fast_key == PyOr(_get_secret(FastSlot), base_key)
        heavy_key == PyOr(_get_secret(HeavySlot), base_key)
        gemini_key == _get_secret(GeminiSlot)
    IN IF ~(Truthy(fast_key) \/ Truthy(heavy_key) \/ Truthy(gemini_key))
       THEN Raise(Exc("ValueError", NoKeyMsg, 0, 0))
       ELSE Return(ChainObject(fast_key, heavy_key, gemini_key))

Attempt(provider, api_key, model) == [provider |-> provider, api_key |-> api_key, model |-> model]

When(cond, a) == IF cond THEN <<a>> ELSE <<>>

\* extract_jobs: the attempts list, fast model first.
ExtractAttempts(self) ==
    When(Truthy(self.fast_key), Attempt("groq", self.fast_key, self.fast_model))
    \o When(Truthy(self.heavy_key), Attempt("groq", self.heavy_key, self.heavy_model))
    \o When(Truthy(self.gemini_key) /\ _HAS_GEMINI,
            Attempt("gemini", self.gemini_key, self.gemini_model))

\* A write_mail that keeps the order of extract_jobs, fast model first.
MailAttempts_FastFirst(self) ==
    When(Truthy(self.fast_key), Attempt("groq", self.fast_key, self.fast_model))
    \o When(Truthy(self.heavy_key), Attempt("groq", self.heavy_key, self.heavy_model))
    \o When(Truthy(self.gemini_key) /\ _HAS_GEMINI,
            Attempt("gemini", self.gemini_key, self.gemini_model))

\* write_mail: the attempts list, heavy model first.
MailAttempts(self) ==
    When(Truthy(self.heavy_key), Attempt("groq", self.heavy_key, self.heavy_model))
    \o When(Truthy(self.fast_key), Attempt("groq", self.fast_key, self.fast_model))
    \o When(Truthy(self.gemini_key) /\ _HAS_GEMINI,
            Attempt("gemini", self.gemini_key, self.gemini_model))

\* A wrapper that allows two retries.
RetriesTwice == 1 + 1

\* _invoke_with_retry: retries=1 at both call sites
Retries == 1
\* _invoke_with_retry: backoff_sec, in seconds
BackoffSec == 3

Markers == {"429", "rate limit", "quota", "exceeded", "temporarily"}

\* _invoke_with_retry: whether the except clause sleeps and continues
IsTransient(e) == \E k \in Markers : Contains(Lower(e.msg), k)

AllFailedMsg(kind) ==
    IF kind = "extract" THEN "Extraction failed on all providers."
    ELSE "Email writing failed on all providers."

\* JsonOutputParser.parse: the document, or OutputParserException
JsonParse(content) ==
    IF content.json THEN Return(content.doc)
    ELSE Raise(Exc("OutputParserException", "Invalid json output: " \o content.text, 0, 0))

\* ------------------------------------------------------------- app helpers
\* URL_RE = ^https?:// with re.IGNORECASE, as URL_RE.match(url) uses it
URL_RE_match(url) ==
    LET u == Lower(url)
    IN StartsWith(u, "http://") \/ StartsWith(u, "https://")

Digits == "0123456789"

\* str(n) of an int
RECURSIVE IntStr(_)
IntStr(n) ==
    IF n < 0 THEN "-" \o IntStr(0 - n)
    ELSE IF n < 10 THEN SubSeq(Digits, n + 1, n + 1)
    ELSE IntStr(n \div 10) \o SubSeq(Digits, (n % 10) + 1, (n % 10) + 1)

\* str(x) / repr(x) of a parsed JSON value; a dict prints its keys in
\* insertion order, which a model dict of at most one key has.
RECURSIVE PyRepr(_, _)
PyRepr(x, quote) ==
    CASE x.t = "None" -> "None"
      [] x.t = "str" -> IF quote THEN "'" \o x.v \o "'" ELSE x.v
      [] x.t = "int" -> IntStr(x.v)
      [] x.t = "bool" -> IF x.v THEN "True" ELSE "False"
      [] x.t = "list" ->
            LET RECURSIVE Join(_)
                Join(q) == IF q = <<>> THEN ""
                           ELSE IF Len(q) = 1 THEN PyRepr(q[1], TRUE)
                           ELSE PyRepr(q[1], TRUE) \o ", " \o Join(Tail(q))
            IN "[" \o Join(x.v) \o "]"
      [] x.t = "dict" ->
            IF DOMAIN x.v = {} THEN "{}"
            ELSE LET k == CHOOSE j \in DOMAIN x.v : TRUE
                 IN "{'" \o k \o "': " \o PyRepr(x.v[k], TRUE) \o "}"

\* str(x)
str(x) == PyRepr(x, FALSE)

\* s.split(","): a sequence of strings
RECURSIVE Split(_)
Split(s) ==
    IF \E i \in 1..Len(s) : SubSeq(s, i, i) = ","
    THEN LET i == CHOOSE j \in 1..Len(s) :
                    /\ SubSeq(s, j, j) = ","
                    /\ \A h \in 1..(j - 1) : SubSeq(s, h, h) # ","
         IN <<SubSeq(s, 1, i - 1)>> \o Split(SubSeq(s, i + 1, Len(s)))
    ELSE <<s>>

\* [f(x) for x in q if f(x)] with f the stripped text of x
RECURSIVE StripKeep(_)
StripKeep(q) ==
    IF q = <<>> THEN <<>>
    ELSE LET e == Strip(Head(q))
         IN (IF e # "" THEN <<PyStr(e)>> ELSE <<>>) \o StripKeep(Tail(q))

\* A list branch that keeps each element as it is printed, unstripped.
normalize_skills_NoStrip(x) ==
    IF x.t = "str" THEN PyList(StripKeep(Split(x.v)))
    ELSE IF x.t = "list"
    THEN PyList(SelectSeq([i \in 1..Len(x.v) |-> PyStr(str(x.v[i]))],
                          LAMBDA e : Strip(e.v) # ""))
    ELSE PyList(<<PyStr(str(x))>>)

\* normalize_skills(raw)
normalize_skills(x) ==
    IF x.t = "str" THEN PyList(StripKeep(Split(x.v)))
    ELSE IF x.t = "list" THEN PyList(StripKeep([i \in 1..Len(x.v) |-> str(x.v[i])]))
    ELSE PyList(<<PyStr(str(x))>>)

\* download_name(): the clock reading is one fixed instant
download_name == "email_" \o "20250101_120000" \o ".md"

\* d.get(key, default) of a dict
DictGet(d, key, default) == IF key \in DOMAIN d.v THEN d.v[key] ELSE default

\* {**job, "tone": tone, "cta": cta}
WithPrefs(job, tone, cta) ==
    PyDict([k \in DOMAIN job.v \cup {"tone", "cta"} |->
              IF k = "tone" THEN tone ELSE IF k = "cta" THEN cta ELSE job.v[k]])

\* ------------------------------------------------------------ the world
\* What the collaborators can answer: the page loader, the client
\* constructors, the models.
FetchResults ==
    { Return(PyStr("We are hiring a Backend Engineer")),
      Raise(Exc("ConnectionError", "Failed to fetch the page", 0, 0)) }

\* _make_groq_llm / _make_gemini_llm: the client, or the error raised
MakeLlm(provider) ==
    IF provider = "gemini" /\ ~_HAS_GEMINI
    THEN { Raise(Exc("RuntimeError", "langchain-google-genai is not installed.", 0, 0)) }
    ELSE { Return("llm"),
           Raise(Exc("ValidationError", "client temporarily unavailable", 0, 0)) }

ProviderErrors ==
    { Exc("RateLimitError", "Rate Limit reached for model", 0, 0),
      Exc("APIStatusError", "Error code: 429", 0, 0),
      Exc("AuthenticationError", "invalid api key", 0, 0) }

Content(json, doc, text) == [json |-> json, doc |-> doc, text |-> text]

\* What a list of postings holds: a full record, a record missing
\* description and experience, something that is no record.
JobElems ==
    { PyDict([role |-> PyStr("Backend Engineer"), description |-> PyStr("Build APIs"),
              experience |-> PyStr("3 years"), skills |-> PyStr("Go, Postgres")]),
      PyDict([role |-> PyStr("Data Analyst"),
              skills |-> PyList(<<PyStr("Python"), PyStr(" SQL ")>>)]),
      PyStr("no openings") }

\* The JSON documents a model answers with: a list of up to MaxJobs
\* elements, a single element, the empty object, null.
JsonDocs ==
    { PyList(q) : q \in UNION { [1..n -> JobElems] : n \in 0..MaxJobs } }
    \cup JobElems \cup { PyDict(<<>>), PyNone }

MailText == "Subject: Your Backend role\nHi,\nAtliQ can help.\nRegards, Mohan, BDE"

\* chain.invoke(payload): the answers of a model
InvokeResults(kind) ==
    { Raise(e) : e \in ProviderErrors }
    \cup (IF kind = "extract"
          THEN { Return(Content(TRUE, d, "")) : d \in JsonDocs }
               \cup { Return(Content(FALSE, PyNone, "Sorry, token limit exceeded")) }
          ELSE { Return(Content(FALSE, PyNone, MailText)) })

\* ------------------------------------------------- the chain call frame
\* The frame of one extract_jobs / write_mail call.  pc: "loop" at the head
\* of the for loop, "invoke" inside _invoke_with_retry, "returned", "raised".
\* i, inst, calls, parsed, slept describe the attempt last begun: its index,
\* whether its client was built, the outcome of each chain.invoke, whether
\* its answer parsed, the seconds slept.  answer (the last answer a model
\* gave) and nfailed (the attempts that ended in the except clause) are
\* history.
NoCall ==
    [kind |-> "none", attempts |-> <<>>, arg |-> PyNone, pc |-> "none", i |-> 0,
     inst |-> "none", calls |-> <<>>, parsed |-> "none", slept |-> 0,
     answer |-> PyNone, nfailed |-> 0, last_error |-> PyNone, result |-> PyNone]

\* entry of extract_jobs / write_mail: attempts built, last_error = None
NewCall(kind, attempts, arg) ==
    [NoCall EXCEPT !.kind = kind, !.attempts = attempts, !.arg = arg, !.pc = "loop"]

Tag(e, att, try) == [e EXCEPT !.att = att, !.try = try]

\* A loop that keeps the first error instead of the last.
Failed_KeepFirst(c, e) ==
    [c EXCEPT !.last_error = IF c.last_error = PyNone THEN e ELSE c.last_error,
              !.pc = "loop", !.nfailed = c.nfailed + 1]

\* except Exception as e: last_error = e; continue
Failed(c, e) == [c EXCEPT !.last_error = e, !.pc = "loop", !.nfailed = c.nfailed + 1]

\* A final statement that is `raise last_error` alone.
Exhausted_NoFallback(c) ==
    [c EXCEPT !.pc = "raised",
              !.result = IF c.last_error = PyNone
                         THEN Exc("TypeError", "exceptions must derive from BaseException", 0, 0)
                         ELSE c.last_error]

\* the for loop is over: raise last_error or RuntimeError(...)
Exhausted(c) ==
    [c EXCEPT !.pc = "raised",
              !.result = PyOr(c.last_error, Exc("RuntimeError", AllFailedMsg(c.kind), 0, 0))]

\* A loop that builds the client outside its try block: a constructor that
\* raises ends the call.
NextAttempt_Fatal(c, r) ==
    LET n == [c EXCEPT !.i = c.i + 1, !.calls = <<>>, !.parsed = "none", !.slept = 0]
    IN IF r.ok THEN [n EXCEPT !.inst = "ok", !.pc = "invoke"]
       ELSE [n EXCEPT !.inst = "failed", !.pc = "raised",
                      !.last_error = Tag(r.err, n.i, 0), !.result = Tag(r.err, n.i, 0),
                      !.nfailed = c.nfailed + 1]

\* one more attempt: llm = _make_groq_llm(...) / _make_gemini_llm(...)
NextAttempt(c, r) ==
    LET n == [c EXCEPT !.i = c.i + 1, !.calls = <<>>, !.parsed = "none", !.slept = 0]
    IN IF r.ok THEN [n EXCEPT !.inst = "ok", !.pc = "invoke"]
       ELSE Failed([n EXCEPT !.inst = "failed"], Tag(r.err, n.i, 0))

\* A loop body that stores the value and goes on instead of returning it.
Returned_KeepGoing(c, content) ==
    IF c.kind = "extract"
    THEN LET p == JsonParse(content)
         IN IF p.ok
            THEN [c EXCEPT !.parsed = "ok", !.pc = "loop",
                           !.result = IF p.val.t = "list" THEN p.val ELSE PyList(<<p.val>>)]
            ELSE Failed([c EXCEPT !.parsed = "failed"], Tag(p.err, c.i, Len(c.calls)))
    ELSE [c EXCEPT !.pc = "loop", !.result = PyStr(content.text)]

\* A loop body that hands a parse error to the retry policy of the wrapper.
Returned_RetryParse(c, content) ==
    IF c.kind = "extract"
    THEN LET p == JsonParse(content)
         IN IF p.ok
            THEN [c EXCEPT !.parsed = "ok", !.pc = "returned",
                           !.result = IF p.val.t = "list" THEN p.val ELSE PyList(<<p.val>>)]
            ELSE IF IsTransient(p.err) /\ Len(c.calls) < Retries + 1
            THEN [c EXCEPT !.parsed = "failed", !.slept = c.slept + BackoffSec]
            ELSE Failed([c EXCEPT !.parsed = "failed"], Tag(p.err, c.i, Len(c.calls)))
    ELSE [c EXCEPT !.pc = "returned", !.result = PyStr(content.text)]

\* what the call returns from the model's answer
Returned(c, content) ==
    IF c.kind = "extract"
    THEN LET p == JsonParse(content)
         IN IF p.ok
            THEN [c EXCEPT !.parsed = "ok", !.pc = "returned",
                           !.result = IF p.val.t = "list" THEN p.val ELSE PyList(<<p.val>>)]
            ELSE Failed([c EXCEPT !.parsed = "failed"], Tag(p.err, c.i, Len(c.calls)))
    ELSE [c EXCEPT !.pc = "returned", !.result = PyStr(content.text)]

\* one pass of the loop of _invoke_with_retry, and what follows it in the caller
Invoke(c, r) ==
    LET try == Len(c.calls) + 1
        n == [c EXCEPT !.calls = Append(c.calls, [ok |-> r.ok, msg |-> IF r.ok THEN "" ELSE r.err.msg]),
                       !.answer = IF r.ok THEN r.val ELSE c.answer]
    IN IF r.ok THEN Returned(n, r.val)
       ELSE LET e == Tag(r.err, c.i, try)
            IN IF IsTransient(e)
               THEN LET z == [n EXCEPT !.slept = n.slept + BackoffSec]
                    IN IF try < Retries + 1 THEN z ELSE Failed(z, e)
               ELSE Failed(n, e)

\* ------------------------------------------------------ the /generate handler
Bodies ==
    { PyNone,
      PyDict([tone |-> PyStr("Friendly")]),
      PyDict([url |-> PyNone]),
      PyDict([url |-> PyStr("")]),
      PyDict([url |-> PyStr("  ")]),
      PyDict([url |-> PyStr("not-a-url")]),
      PyDict([url |-> PyStr("ftp://example.com/jobs")]),
      PyDict([url |-> PyInt(123)]),
      PyList(<<PyStr("https://example.com/careers")>>),
      PyDict([url |-> PyStr(" HTTPS://Example.com/careers "), tone |-> PyStr("Friendly")]) }

\* The handler's locals; mailed is history: the records handed to
\* write_mail so far, in the order of the calls.
InitLoc ==
    [url |-> PyNone, tone |-> PyNone, cta |-> PyNone, text |-> PyNone,
     chain |-> PyNone, portfolio |-> PyNone, jobs |-> PyNone, k |-> 0,
     job |-> PyNone, results |-> <<>>, mailed |-> <<>>]

Response(status, body) == [t |-> "response", status |-> status, body |-> body]

TypeName(x) ==
    CASE x.t = "None" -> "NoneType"
      [] x.t = "bool" -> "bool"
      [] x.t = "int" -> "int"
      [] x.t = "str" -> "str"
      [] x.t = "list" -> "list"
      [] OTHER -> "dict"

\* jsonify(error=str(e)), 500
Error500(e) == Response(500, [error |-> e.msg])

\* return jsonify(url=url, count=len(results), results=results)
Ok200(l) == Response(200, [url |-> l.url, count |-> Len(l.results), results |-> l.results])

\* A handler that answers with the emails written before the failure.
OnException_Partial(l, e) == IF l.results # <<>> THEN Ok200(l) ELSE Error500(e)

\* except Exception as e: return jsonify(error=str(e)), 500
OnException(l, e) == Error500(e)

\* An exception outside the try block: Flask answers 500 with its own page.
Unhandled(e) == Response(500, [html |-> "Internal Server Error"])

NoAttr(x, name) ==
    Exc("AttributeError", "'" \o TypeName(x) \o "' object has no attribute '" \o name \o "'", 0, 0)

\* POST /generate: the body is read and the url validated
generate(t) ==
    /\ pc[t] \in {"idle", "done"}
    /\ served[t] < MaxRequests
    /\ \E body \in Bodies :
          LET d == PyOr(body, PyDict(<<>>))
              u == PyOr(DictGet(d, "url", PyNone), PyStr(""))
              url == Strip(u.v)
              tone == PyOr(DictGet(d, "tone", PyNone), PyStr("Confident"))
              cta == PyOr(DictGet(d, "cta", PyNone), PyStr("Request an Interview"))
          IN /\ data' = [data EXCEPT ![t] = body]
             /\ IF d.t # "dict"
                THEN /\ resp' = [resp EXCEPT ![t] = Unhandled(NoAttr(d, "get"))]
                     /\ loc' = [loc EXCEPT ![t] = InitLoc]
                     /\ pc' = [pc EXCEPT ![t] = "done"]
                ELSE IF u.t # "str"
                THEN /\ resp' = [resp EXCEPT ![t] = Unhandled(NoAttr(u, "strip"))]
                     /\ loc' = [loc EXCEPT ![t] = InitLoc]
                     /\ pc' = [pc EXCEPT ![t] = "done"]
                ELSE /\ loc' = [loc EXCEPT ![t] =
                                  [InitLoc EXCEPT !.url = PyStr(url), !.tone = tone, !.cta = cta]]
                     /\ IF url = "" \/ ~URL_RE_match(url)
                        THEN /\ resp' = [resp EXCEPT ![t] =
                                   Response(400, [error |-> "Provide a valid http(s) URL in 'url'."])]
                             /\ pc' = [pc EXCEPT ![t] = "done"]
                        ELSE /\ resp' = [resp EXCEPT ![t] = PyNone]
                             /\ pc' = [pc EXCEPT ![t] = "fetch"]
    /\ served' = [served EXCEPT ![t] = @ + 1]
    /\ call' = [call EXCEPT ![t] = NoCall]
    /\ UNCHANGED <<config, globals, skillvars>>

\* text = fetch_and_clean(url)
fetch_and_clean(t) ==
    /\ pc[t] = "fetch"
    /\ fetch_calls' = fetch_calls + 1
    /\ \E r \in FetchResults :
          IF r.ok
          THEN /\ loc' = [loc EXCEPT ![t].text = r.val]
               /\ pc' = [pc EXCEPT ![t] = "get_chain"]
               /\ UNCHANGED resp
          ELSE /\ resp' = [resp EXCEPT ![t] = OnException(loc[t], r.err)]
               /\ pc' = [pc EXCEPT ![t] = "done"]
               /\ UNCHANGED loc
    /\ UNCHANGED <<config, _chain, _portfolio, chain_ctor_calls, portfolio_ctor_calls,
                   data, call, served, skillvars>>

\* A get_chain that constructs on every call.
get_chain_Always(t) ==
    /\ pc[t] = "get_chain"
    /\ pc' = [pc EXCEPT ![t] = "new_chain"]
    /\ UNCHANGED <<config, globals, data, loc, call, resp, served, skillvars>>

\* get_chain(): if _chain is None
get_chain(t) ==
    /\ pc[t] = "get_chain"
    /\ IF _chain = PyNone
       THEN /\ pc' = [pc EXCEPT ![t] = "new_chain"]
            /\ UNCHANGED loc
       ELSE /\ loc' = [loc EXCEPT ![t].chain = _chain]
            /\ pc' = [pc EXCEPT ![t] = "get_portfolio"]
    /\ UNCHANGED <<config, globals, data, call, resp, served, skillvars>>

\* get_chain(): _chain = Chain(); return _chain
new_chain(t) ==
    /\ pc[t] = "new_chain"
    /\ chain_ctor_calls' = chain_ctor_calls + 1
    /\ LET r == ChainInit
       IN IF r.ok
          THEN LET obj == [r.val EXCEPT !.id = chain_ctor_calls']
               IN /\ _chain' = obj
                  /\ loc' = [loc EXCEPT ![t].chain = obj]
                  /\ pc' = [pc EXCEPT ![t] = "get_portfolio"]
                  /\ UNCHANGED resp
          ELSE /\ resp' = [resp EXCEPT ![t] = OnException(loc[t], r.err)]
               /\ pc' = [pc EXCEPT ![t] = "done"]
               /\ UNCHANGED <<_chain, loc>>
    /\ UNCHANGED <<config, _portfolio, portfolio_ctor_calls, fetch_calls,
                   data, call, served, skillvars>>

\* A loader that falls back to an empty table when the file is missing.
PortfolioInit_Lenient == Return([t |-> "Portfolio", id |-> 0])

\* Portfolio.__init__: _resolve_path and read_csv
PortfolioInit ==
    IF csv_exists THEN Return([t |-> "Portfolio", id |-> 0])
    ELSE Raise(Exc("FileNotFoundError", "Could not find my_portfolio.csv.", 0, 0))

\* get_portfolio(): if _portfolio is None
get_portfolio(t) ==
    /\ pc[t] = "get_portfolio"
    /\ IF _portfolio = PyNone
       THEN /\ pc' = [pc EXCEPT ![t] = "new_portfolio"]
            /\ UNCHANGED loc
       ELSE /\ loc' = [loc EXCEPT ![t].portfolio = _portfolio]
            /\ pc' = [pc EXCEPT ![t] = "extract"]
    /\ UNCHANGED <<config, globals, data, call, resp, served, skillvars>>

\* A get_portfolio that binds the name before the constructor has run, and
\* leaves it bound when the constructor raises.
new_portfolio_Poison(t) ==
    /\ pc[t] = "new_portfolio"
    /\ portfolio_ctor_calls' = portfolio_ctor_calls + 1
    /\ LET r == PortfolioInit
           obj == [t |-> "Portfolio", id |-> portfolio_ctor_calls']
       IN /\ _portfolio' = obj
          /\ IF r.ok
             THEN /\ loc' = [loc EXCEPT ![t].portfolio = obj]
                  /\ pc' = [pc EXCEPT ![t] = "extract"]
                  /\ UNCHANGED resp
             ELSE /\ resp' = [resp EXCEPT ![t] = OnException(loc[t], r.err)]
                  /\ pc' = [pc EXCEPT ![t] = "done"]
                  /\ UNCHANGED loc
    /\ UNCHANGED <<config, _chain, chain_ctor_calls, fetch_calls,
                   data, call, served, skillvars>>

\* get_portfolio(): _portfolio = Portfolio(); _portfolio.load_portfolio()
new_portfolio(t) ==
    /\ pc[t] = "new_portfolio"
    /\ portfolio_ctor_calls' = portfolio_ctor_calls + 1
    /\ LET r == PortfolioInit
       IN IF r.ok
          THEN LET obj == [r.val EXCEPT !.id = portfolio_ctor_calls']
               IN /\ _portfolio' = obj
                  /\ loc' = [loc EXCEPT ![t].portfolio = obj]
                  /\ pc' = [pc EXCEPT ![t] = "extract"]
                  /\ UNCHANGED resp
          ELSE /\ resp' = [resp EXCEPT ![t] = OnException(loc[t], r.err)]
               /\ pc' = [pc EXCEPT ![t] = "done"]
               /\ UNCHANGED <<_portfolio, loc>>
    /\ UNCHANGED <<config, _chain, chain_ctor_calls, fetch_calls,
                   data, call, served, skillvars>>

\* jobs = chain.extract_jobs(text): the call is entered
extract_jobs(t) ==
    /\ pc[t] = "extract"
    /\ call' = [call EXCEPT ![t] =
                  NewCall("extract", ExtractAttempts(loc[t].chain), loc[t].text)]
    /\ pc' = [pc EXCEPT ![t] = "call"]
    /\ UNCHANGED <<config, globals, data, loc, resp, served, skillvars>>

\* extract_jobs / write_mail: the head of the for loop over attempts
chain_attempt(t) ==
    /\ pc[t] = "call"
    /\ call[t].pc = "loop"
    /\ call[t].i < Len(call[t].attempts)
    /\ \E r \in MakeLlm(call[t].attempts[call[t].i + 1].provider) :
          call' = [call EXCEPT ![t] = NextAttempt(call[t], r)]
    /\ UNCHANGED <<config, globals, pc, data, loc, resp, served, skillvars>>

\* extract_jobs / write_mail: the statement after the for loop
chain_exhausted(t) ==
    /\ pc[t] = "call"
    /\ call[t].pc = "loop"
    /\ call[t].i = Len(call[t].attempts)
    /\ call' = [call EXCEPT ![t] = Exhausted(call[t])]
    /\ UNCHANGED <<config, globals, pc, data, loc, resp, served, skillvars>>

\* _invoke_with_retry: one chain.invoke(payload)
_invoke_with_retry(t) ==
    /\ pc[t] = "call"
    /\ call[t].pc = "invoke"
    /\ \E r \in InvokeResults(call[t].kind) :
          call' = [call EXCEPT ![t] = Invoke(call[t], r)]
    /\ UNCHANGED <<config, globals, pc, data, loc, resp, served, skillvars>>

\* jobs = chain.extract_jobs(text) or []; results = []
generate_extracted(t) ==
    /\ pc[t] = "call"
    /\ call[t].kind = "extract"
    /\ call[t].pc = "returned"
    /\ loc' = [loc EXCEPT ![t].jobs = PyOr(call[t].result, PyList(<<>>)), ![t].k = 1]
    /\ pc' = [pc EXCEPT ![t] = "loop"]
    /\ UNCHANGED <<config, globals, data, call, resp, served, skillvars>>

\* the fields of one result, before the email is there
JobFields(job) ==
    [role |-> DictGet(job, "role", PyStr("Software Engineer")),
     description |-> DictGet(job, "description", PyStr("")),
     experience |-> DictGet(job, "experience", PyStr("N/A")),
     skills |-> normalize_skills(DictGet(job, "skills", PyList(<<>>)))]

\* what the handler hands to write_mail
MailArg(job, tone, cta) == WithPrefs(job, tone, cta)

\* for job in jobs: the body up to the call of write_mail
generate_job(t) ==
    /\ pc[t] = "loop"
    /\ loc[t].k <= Len(loc[t].jobs.v)
    /\ LET job == loc[t].jobs.v[loc[t].k]
       IN IF job.t # "dict"
          THEN /\ resp' = [resp EXCEPT ![t] = OnException(loc[t], NoAttr(job, "get"))]
               /\ pc' = [pc EXCEPT ![t] = "done"]
               /\ UNCHANGED <<loc, call>>
          ELSE /\ loc' = [loc EXCEPT ![t].job = JobFields(job),
                                      ![t].mailed = Append(@, MailArg(job, loc[t].tone, loc[t].cta))]
               /\ call' = [call EXCEPT ![t] =
                             NewCall("mail", MailAttempts(loc[t].chain),
                                     MailArg(job, loc[t].tone, loc[t].cta))]
               /\ pc' = [pc EXCEPT ![t] = "call"]
               /\ UNCHANGED resp
    /\ UNCHANGED <<config, globals, data, served, skillvars>>

\* results.append({...}) once write_mail has returned
generate_mailed(t) ==
    /\ pc[t] = "call"
    /\ call[t].kind = "mail"
    /\ call[t].pc = "returned"
    /\ LET j == loc[t].job
           row == [role |-> j.role, description |-> j.description,
                   experience |-> j.experience, skills |-> j.skills,
                   email_markdown |-> call[t].result,
                   download_name |-> download_name]
       IN loc' = [loc EXCEPT ![t].results = Append(@, row), ![t].k = @ + 1]
    /\ pc' = [pc EXCEPT ![t] = "loop"]
    /\ UNCHANGED <<config, globals, data, call, resp, served, skillvars>>

\* A loop that stops one job short.
generate_return_Early(t) ==
    /\ pc[t] = "loop"
    /\ loc[t].k >= Len(loc[t].jobs.v)
    /\ resp' = [resp EXCEPT ![t] = Ok200(loc[t])]
    /\ pc' = [pc EXCEPT ![t] = "done"]
    /\ UNCHANGED <<config, globals, data, loc, call, served, skillvars>>

\* the for loop is over: return jsonify(...)
generate_return(t) ==
    /\ pc[t] = "loop"
    /\ loc[t].k > Len(loc[t].jobs.v)
    /\ resp' = [resp EXCEPT ![t] = Ok200(loc[t])]
    /\ pc' = [pc EXCEPT ![t] = "done"]
    /\ UNCHANGED <<config, globals, data, loc, call, served, skillvars>>

\* except Exception as e, for what extract_jobs or write_mail raised
generate_except(t) ==
    /\ pc[t] = "call"
    /\ call[t].pc = "raised"
    /\ resp' = [resp EXCEPT ![t] = OnException(loc[t], call[t].result)]
    /\ pc' = [pc EXCEPT ![t] = "done"]
    /\ UNCHANGED <<config, globals, data, loc, call, served, skillvars>>

\* ------------------------------------------------------------- behaviours
KeyOf(slot) == PyStr("key-of-" \o slot)

InitProcess ==
    /\ _chain = PyNone
    /\ _portfolio = PyNone
    /\ chain_ctor_calls = 0
    /\ portfolio_ctor_calls = 0
    /\ fetch_calls = 0
    /\ pc = [t \in Threads |-> "idle"]
    /\ data = [t \in Threads |-> PyNone]
    /\ loc = [t \in Threads |-> InitLoc]
    /\ call = [t \in Threads |-> NoCall]
    /\ resp = [t \in Threads |-> PyNone]
    /\ served = [t \in Threads |-> 0]

NoSkills ==
    /\ raw = PyNone
    /\ skills_out = PyNone

\* The process as imported: streamlit is not installed, each of the four
\* variables is set in the environment or not.
Init ==
    /\ st = PyNone
    /\ \E set \in SUBSET Slots :
          environ = [s \in Slots |-> IF s \in set THEN KeyOf(s) ELSE PyNone]
    /\ _HAS_GEMINI \in BOOLEAN
    /\ csv_exists \in BOOLEAN
    /\ InitProcess
    /\ NoSkills

Step(t) ==
    \/ generate(t)
    \/ fetch_and_clean(t)
    \/ get_chain(t)
    \/ new_chain(t)
    \/ get_portfolio(t)
    \/ new_portfolio(t)
    \/ extract_jobs(t)
    \/ chain_attempt(t)
    \/ chain_exhausted(t)
    \/ _invoke_with_retry(t)
    \/ generate_extracted(t)
    \/ generate_job(t)
    \/ generate_mailed(t)
    \/ generate_return(t)
    \/ generate_except(t)

\* One worker thread serves the requests one after the other.
Next == Step(1)

Spec == Init /\ [][Next]_vars

\* --------------------------------------------------- a failure that heals
\* my_portfolio.csv is put where _resolve_path looks for it, while the
\* process runs.
deploy_csv ==
    /\ ~csv_exists
    /\ csv_exists' = TRUE
    /\ UNCHANGED <<st, environ, _HAS_GEMINI, globals, threads, skillvars>>

NextRecover == Next \/ deploy_csv

SpecRecover == Init /\ [][NextRecover]_vars

\* ------------------------------------------- credential resolution at large
StKeyOf(slot) == PyStr("secret-of-" \o slot)

\* Every way the two sources can hold the four slots: streamlit missing or
\* holding a secret per slot or not; the environment holding per slot
\* nothing, the empty text or a key.
InitCred ==
    /\ \/ st = PyNone
       \/ \E set \in SUBSET Slots :
             st = [t |-> "module",
                   secrets |-> [s \in Slots |-> IF s \in set THEN StKeyOf(s) ELSE PyNone]]
    /\ environ \in [Slots -> {PyNone, PyStr("")} \cup {KeyOf(s) : s \in Slots}]
    /\ \A s \in Slots : environ[s] \in {PyNone, PyStr(""), KeyOf(s)}
    /\ _HAS_GEMINI \in BOOLEAN
    /\ csv_exists = TRUE
    /\ InitProcess
    /\ NoSkills

\* A request up to the entry of extract_jobs, where the attempts are built.
NextCred ==
    \/ generate(1)
    \/ fetch_and_clean(1)
    \/ get_chain(1)
    \/ new_chain(1)
    \/ get_portfolio(1)
    \/ new_portfolio(1)
    \/ extract_jobs(1)

SpecCred == InitCred /\ [][NextCred]_vars

\* ------------------------------------------------- concurrent first use
\* The server runs one handler per request on threads of one process
\* (app.run serves threaded); no key is set, the base key alone, or all.
InitConc ==
    /\ st = PyNone
    /\ \E set \in {{}, {BaseSlot}, Slots} :
          environ = [s \in Slots |-> IF s \in set THEN KeyOf(s) ELSE PyNone]
    /\ _HAS_GEMINI = TRUE
    /\ csv_exists \in BOOLEAN
    /\ InitProcess
    /\ NoSkills

\* One step of the handler of thread t, up to the entry of extract_jobs.
StepConc(t) ==
    \/ generate(t)
    \/ fetch_and_clean(t)
    \/ get_chain(t)
    \/ new_chain(t)
    \/ get_portfolio(t)
    \/ new_portfolio(t)
    \/ extract_jobs(t)

\* The threads interleave between any two steps.
NextConc == \E t \in Threads : StepConc(t)

SpecConc == InitConc /\ [][NextConc]_vars

\* ------------------------------------------------ normalize_skills at large
SkillChars == {"a", ",", " "}

RECURSIVE Texts(_)
Texts(n) ==
    IF n = 0 THEN {""}
    ELSE {""} \cup { c \o s : c \in SkillChars, s \in Texts(n - 1) }

SkillScalars ==
    { PyStr("Python"), PyStr(" SQL "), PyStr(""), PyStr(" "), PyStr("a,b"),
      PyInt(42), PyBool(TRUE), PyNone }

\* What a parsed JSON document can hold for skills.
SkillInputs ==
    { PyStr(s) : s \in Texts(MaxStrLen) \cup {"Python, SQL", "Go, Postgres"} }
    \cup { PyList(q) : q \in UNION { [1..n -> SkillScalars] : n \in 0..MaxListLen } }
    \cup { PyInt(0), PyInt(42), PyInt(-7), PyBool(TRUE), PyBool(FALSE), PyNone,
           PyDict(<<>>), PyDict([level |-> PyInt(3)]) }

InitSkills ==
    /\ st = PyNone
    /\ environ = [s \in Slots |-> PyNone]
    /\ _HAS_GEMINI = FALSE
    /\ csv_exists = FALSE
    /\ InitProcess
    /\ raw \in SkillInputs
    /\ skills_out = PyNone

\* skills = normalize_skills(raw)
normalize ==
    /\ skills_out = PyNone
    /\ skills_out' = normalize_skills(raw)
    /\ UNCHANGED <<config, globals, threads, raw>>

\* the value returned is normalized once more
renormalize ==
    /\ skills_out # PyNone
    /\ raw # skills_out
    /\ raw' = skills_out
    /\ skills_out' = normalize_skills(skills_out)
    /\ UNCHANGED <<config, globals, threads>>

NextSkills == normalize \/ renormalize

SpecSkills == InitSkills /\ [][NextSkills]_vars

\* ================================================================ claims
\* C1: first success wins.  A call that returned returned the answer of
\* the attempt it stands at, every attempt before that one failed, and no
\* attempt after it was begun; a call raises only when every attempt of
\* the list failed.
C1_FirstSuccessWins ==
    \A t \in Threads :
        LET c == call[t]
        IN /\ c.pc = "returned" =>
                /\ c.i \in 1..Len(c.attempts)
                /\ c.nfailed = c.i - 1
                /\ c.inst = "ok"
                /\ c.calls # <<>>
                /\ c.calls[Len(c.calls)].ok
                /\ c.kind = "mail" => c.result = PyStr(c.answer.text)
                /\ c.kind = "extract" =>
                      /\ c.answer.json
                      /\ c.result = IF c.answer.doc.t = "list" THEN c.answer.doc
                                    ELSE PyList(<<c.answer.doc>>)
           /\ c.pc = "raised" => c.i = Len(c.attempts) /\ c.nfailed = Len(c.attempts)
           /\ c.pc = "loop" => c.nfailed = c.i
           /\ c.pc = "invoke" => c.nfailed = c.i - 1

\* C1 witness: the second attempt answered after the first one failed, and
\* a third attempt was left untried.
C1_Witness ==
    \E t \in Threads :
        /\ call[t].pc = "returned"
        /\ call[t].i = 2
        /\ call[t].nfailed = 1
        /\ Len(call[t].attempts) = 3

\* C2: when every attempt of a non-empty list failed, the error raised is
\* the error of the last attempt of the list, and of that attempt's last try.
C2_LastErrorSurfaces ==
    \A t \in Threads :
        LET c == call[t]
        IN (c.pc = "raised" /\ c.attempts # <<>>) =>
              /\ c.result = c.last_error
              /\ c.result.att = Len(c.attempts)
              /\ c.result.try = Len(c.calls)
              /\ \/ c.inst = "failed"
                 \/ c.parsed = "failed"
                 \/ /\ ~c.calls[Len(c.calls)].ok
                    /\ c.result.msg = c.calls[Len(c.calls)].msg

\* C2 witness: three attempts failed, the last of them after a retry.
C2_Witness ==
    \E t \in Threads :
        /\ call[t].pc = "raised"
        /\ Len(call[t].attempts) = 3
        /\ Len(call[t].calls) = 2
        /\ resp[t] # PyNone
        /\ resp[t].status = 500

C3_Markers == {"429", "rate limit", "quota", "exceeded", "temporarily"}

C3_HasMarker(msg) == \E k \in C3_Markers : Contains(Lower(msg), k)

\* C3: within one attempt the model is invoked at most twice; an attempt
\* that is over invoked it twice when the first error carried a marker,
\* once when it carried none, once when the first call answered.
C3_RetryPolicy ==
    \A t \in Threads :
        LET c == call[t]
            n == Len(c.calls)
            over == c.pc \in {"loop", "returned", "raised"} /\ c.i >= 1 /\ c.inst = "ok"
        IN /\ n <= 2
           /\ c.inst = "failed" => n = 0
           /\ over =>
                /\ n >= 1
                /\ c.calls[1].ok => n = 1
                /\ ~c.calls[1].ok => n = (IF C3_HasMarker(c.calls[1].msg) THEN 2 ELSE 1)

\* C3 witness: an attempt failed on "Rate Limit ..." twice and is over.
C3_Witness ==
    \E t \in Threads :
        /\ call[t].pc = "loop"
        /\ call[t].inst = "ok"
        /\ Len(call[t].calls) = 2
        /\ call[t].calls[1].msg = "Rate Limit reached for model"
        /\ ~call[t].calls[2].ok

C4_NoProvider(kind) ==
    Exc("RuntimeError",
        IF kind = "extract" THEN "Extraction failed on all providers."
        ELSE "Email writing failed on all providers.", 0, 0)

\* C4: with the secondary key the only credential and its package missing
\* the attempts list is empty; a call with an empty list builds no client,
\* invokes no model and raises the RuntimeError of its last line, which no
\* call raises that exhausted a non-empty list.
C4_EmptyAttempts ==
    \A t \in Threads :
        LET c == call[t]
            self == loc[t].chain
        IN /\ ( /\ c.kind # "none"
                /\ Truthy(self.gemini_key)
                /\ ~Truthy(self.fast_key)
                /\ ~Truthy(self.heavy_key)
                /\ ~_HAS_GEMINI ) => c.attempts = <<>>
           /\ (c.kind # "none" /\ c.attempts = <<>>) =>
                /\ c.i = 0
                /\ c.inst = "none"
                /\ c.calls = <<>>
                /\ c.answer = PyNone
                /\ c.pc \in {"loop", "raised"}
                /\ c.pc = "raised" => c.result = C4_NoProvider(c.kind)
           /\ (c.pc = "raised" /\ c.attempts # <<>>) => c.result # C4_NoProvider(c.kind)

\* C4 witness: extract_jobs raised over an empty list and the request
\* answered 500.
C4_Witness ==
    \E t \in Threads :
        /\ call[t].kind = "extract"
        /\ call[t].attempts = <<>>
        /\ call[t].pc = "raised"
        /\ ~_HAS_GEMINI
        /\ resp[t] # PyNone

NonEmpty(x) == x.t = "str" /\ x.v # ""

\* What a slot resolves to: the streamlit secret when there is one, else
\* the environment variable.
Resolved(s) ==
    IF st # PyNone /\ NonEmpty(st.secrets[s]) THEN st.secrets[s] ELSE environ[s]

AllUnset == \A s \in Slots : ~NonEmpty(Resolved(s))

OnlyBaseSet == NonEmpty(Resolved(BaseSlot)) /\ \A s \in Slots \ {BaseSlot} : ~NonEmpty(Resolved(s))

\* C5: the chain's fast and heavy keys are the slot's own value when it is
\* non-empty and the base value otherwise; with the base key alone the
\* attempts of extract_jobs hold the fast and the heavy model, both with
\* the base key; Chain() fails exactly when all four slots resolve empty.
C5_CredentialResolution ==
    /\ chain_ctor_calls > 0 => ((_chain = PyNone) <=> AllUnset)
    /\ \A t \in Threads :
        /\ loc[t].chain # PyNone =>
              /\ loc[t].chain.fast_key =
                    IF NonEmpty(Resolved(FastSlot)) THEN Resolved(FastSlot) ELSE Resolved(BaseSlot)
              /\ loc[t].chain.heavy_key =
                    IF NonEmpty(Resolved(HeavySlot)) THEN Resolved(HeavySlot) ELSE Resolved(BaseSlot)
              /\ loc[t].chain.gemini_key = Resolved(GeminiSlot)
        /\ (resp[t] # PyNone /\ resp[t].body = [error |-> NoKeyMsg]) => AllUnset
        /\ (call[t].kind = "extract" /\ OnlyBaseSet) =>
              call[t].attempts =
                 << [provider |-> "groq", api_key |-> Resolved(BaseSlot),
                     model |-> "llama-3.1-8b-instant"],
                    [provider |-> "groq", api_key |-> Resolved(BaseSlot),
                     model |-> "llama-3.3-70b-versatile"] >>

\* C5 witness: the base key alone, taken from the streamlit secrets, and
\* extract_jobs entered with its two attempts.
C5_Witness ==
    /\ OnlyBaseSet
    /\ st # PyNone
    /\ environ[BaseSlot] = PyStr("")
    /\ call[1].kind = "extract"
    /\ Len(call[1].attempts) = 2

\* C6 as claimed: with all four credentials unset no page is fetched
\* before the check for missing credentials has run.
C6_CheckBeforeAnyFetch == AllUnset => (fetch_calls > 0 => chain_ctor_calls > 0)

\* C6 as amended: with all four credentials unset the check runs inside a
\* request, after that request's page fetch; it fails every time, so no
\* chain exists and no extract_jobs / write_mail call is ever entered.
C6_LazyCheckAfterFetch ==
    AllUnset =>
        /\ _chain = PyNone
        /\ chain_ctor_calls <= fetch_calls
        /\ \A t \in Threads :
              /\ call[t].kind = "none"
              /\ pc[t] \in {"idle", "fetch", "get_chain", "new_chain", "done"}
              /\ (resp[t] # PyNone /\ resp[t].body = [error |-> NoKeyMsg]) =>
                    /\ resp[t].status = 500
                    /\ loc[t].text # PyNone
              /\ (pc[t] = "done" /\ loc[t].text # PyNone) =>
                    resp[t] = Response(500, [error |-> NoKeyMsg])

\* C6 witness: the second request fetched its page and failed the check
\* again.
C6_Witness ==
    /\ AllUnset
    /\ chain_ctor_calls = 2
    /\ fetch_calls = 2
    /\ resp[1] = Response(500, [error |-> NoKeyMsg])

CoreDefaults ==
    [role |-> PyStr("Software Engineer"), description |-> PyStr(""),
     experience |-> PyStr("N/A"), skills |-> PyList(<<>>)]

\* C7 as claimed: the record handed to write_mail holds role, description,
\* experience and skills, with the default where the extracted record
\* lacks the key.
C7_CoreFieldsReachMail ==
    \A t \in Threads :
        call[t].kind = "mail" =>
            LET job == loc[t].jobs.v[loc[t].k].v
                arg == call[t].arg.v
            IN \A key \in DOMAIN CoreDefaults :
                  /\ key \in DOMAIN arg
                  /\ key \notin DOMAIN job => arg[key] = CoreDefaults[key]

\* The body carries a text url that, stripped, starts with http:// or
\* https:// in any case.
ValidBody(body) ==
    /\ body.t = "dict"
    /\ "url" \in DOMAIN body.v
    /\ body.v["url"].t = "str"
    /\ LET u == Lower(Strip(body.v["url"].v))
       IN StartsWith(u, "http://") \/ StartsWith(u, "https://")

\* C8 as claimed: a request whose body has no such url answers 400 with an
\* error field, having fetched nothing, built nothing and called nothing.
C8_InvalidUrlIs400 ==
    \A t \in Threads :
        (pc[t] # "idle" /\ ~ValidBody(data[t])) =>
            /\ pc[t] = "done"
            /\ resp[t] # PyNone
            /\ resp[t].status = 400
            /\ "error" \in DOMAIN resp[t].body
            /\ loc[t].text = PyNone
            /\ loc[t].chain = PyNone
            /\ loc[t].portfolio = PyNone
            /\ call[t] = NoCall

\* C9: a request with a valid url answers 200 or 500; 500 carries the
\* error text alone and is what every exception of the fetch, of a
\* constructor, of extract_jobs or of write_mail leads to; 200 comes only
\* after the extraction and every write_mail returned, with one result per
\* job.
C9_AllOrNothing ==
    \A t \in Threads :
        (pc[t] # "idle" /\ ValidBody(data[t])) =>
            /\ pc[t] = "done" <=> resp[t] # PyNone
            /\ resp[t] # PyNone =>
                  /\ resp[t].status \in {200, 500}
                  /\ resp[t].status = 500 => DOMAIN resp[t].body = {"error"}
                  /\ resp[t].status = 200 =>
                        /\ DOMAIN resp[t].body = {"url", "count", "results"}
                        /\ loc[t].text # PyNone
                        /\ loc[t].chain # PyNone
                        /\ loc[t].portfolio # PyNone
                        /\ loc[t].jobs # PyNone
                        /\ call[t].pc \in {"returned", "none"}
                        /\ Len(resp[t].body.results) = Len(loc[t].jobs.v)
                        /\ resp[t].body.count = Len(loc[t].jobs.v)
                        /\ \A i \in 1..Len(resp[t].body.results) :
                              resp[t].body.results[i].email_markdown = PyStr(MailText)
                  /\ call[t].pc = "raised" => resp[t] = Response(500, [error |-> call[t].result.msg])
                  /\ (loc[t].text = PyNone \/ loc[t].chain = PyNone \/ loc[t].portfolio = PyNone)
                        => resp[t].status = 500

\* C9 witness: the email of the first job was written, write_mail failed
\* on all providers for the second, and the answer is 500.
C9_Witness ==
    \E t \in Threads :
        /\ resp[t] # PyNone
        /\ resp[t].status = 500
        /\ Len(loc[t].results) = 1
        /\ loc[t].k = 2
        /\ call[t].kind = "mail"
        /\ call[t].pc = "raised"

C10_StrList(x) == x.t = "list" /\ \A i \in 1..Len(x.v) : x.v[i].t = "str"

C10_Clean(x) ==
    \A i \in 1..Len(x.v) :
        LET e == x.v[i].v
        IN /\ e # ""
           /\ SubSeq(e, 1, 1) \notin {" ", "\t", "\n"}
           /\ SubSeq(e, Len(e), Len(e)) \notin {" ", "\t", "\n"}

\* The elements of out are, in order, the stripped prints of elements of
\* the list src.
C10_ListOrder(src, out) ==
    \E f \in [1..Len(out) -> 1..Len(src)] :
        /\ \A i \in 1..Len(out) : out[i].v = Strip(str(src[f[i]]))
        /\ \A i \in 1..(Len(out) - 1) : f[i] < f[i + 1]

\* The elements of out occur in the text src one after the other, a comma
\* between each two.
C10_TextOrder(src, out) ==
    \E f \in [1..Len(out) -> 1..Len(src)] :
        /\ \A i \in 1..Len(out) : SubSeq(src, f[i], f[i] + Len(out[i].v) - 1) = out[i].v
        /\ \A i \in 1..(Len(out) - 1) :
              \E j \in (f[i] + Len(out[i].v))..(f[i + 1] - 1) : SubSeq(src, j, j) = ","

\* C10: what normalize_skills returns is a list of texts that it maps to
\* itself; for a text or a list its elements are non-empty, stripped and
\* in the order of the argument; the examples of the specification hold.
C10_NormalizeSkills ==
    skills_out # PyNone =>
        /\ C10_StrList(skills_out)
        /\ normalize_skills(skills_out) = skills_out
        /\ raw.t \in {"str", "list"} => C10_Clean(skills_out)
        /\ raw.t = "list" => C10_ListOrder(raw.v, skills_out.v)
        /\ raw.t = "str" => C10_TextOrder(raw.v, skills_out.v)
        /\ raw.t \notin {"str", "list"} => Len(skills_out.v) = 1
        /\ raw = PyStr("Python, SQL") => skills_out = PyList(<<PyStr("Python"), PyStr("SQL")>>)
        /\ raw = PyList(<<PyStr("Python"), PyStr(" SQL ")>>) =>
              skills_out = PyList(<<PyStr("Python"), PyStr("SQL")>>)
        /\ raw = PyInt(42) => skills_out = PyList(<<PyStr("42")>>)
        /\ raw \in {PyStr(""), PyList(<<>>)} => skills_out = PyList(<<>>)

\* C10 witness: a list with a padded element was normalized.
C10_Witness ==
    /\ raw = PyList(<<PyStr("Python"), PyStr(" SQL ")>>)
    /\ skills_out = PyList(<<PyStr("Python"), PyStr("SQL")>>)

\* The backoff sleeps of the attempt last begun.
C11_Sleeps(c) == c.slept \div BackoffSec

\* C11 as claimed: in an attempt whose client was built every sleep is
\* followed by one more invocation: while the attempt waits in
\* _invoke_with_retry it slept once per invocation made, and once it is
\* over it slept once per retry, the invocations less one, at most once.
C11_SleepThenRetry ==
    \A t \in Threads :
        LET c == call[t]
        IN (c.inst = "ok" /\ c.calls # <<>>) =>
              /\ C11_Sleeps(c) <= 1
              /\ c.pc = "invoke" => C11_Sleeps(c) = Len(c.calls)
              /\ c.pc # "invoke" => C11_Sleeps(c) = Len(c.calls) - 1

\* The attempt last begun got an answer that did not parse: the answer was
\* the last invocation, nothing was slept for it, the parse error is the
\* error recorded for this attempt, and the call waits at the loop head or
\* raised that error after the last attempt.
C12_ParseFailed(c) ==
    /\ c.kind = "extract"
    /\ c.inst = "ok"
    /\ c.calls # <<>>
    /\ c.calls[Len(c.calls)].ok
    /\ \A j \in 1..(Len(c.calls) - 1) : ~c.calls[j].ok
    /\ c.slept = BackoffSec * (Len(c.calls) - 1)
    /\ c.pc \in {"loop", "raised"}
    /\ c.nfailed = c.i
    /\ c.last_error.type = "OutputParserException"
    /\ c.last_error.att = c.i
    /\ c.pc = "raised" => (c.i = Len(c.attempts) /\ c.result = c.last_error)

\* What a call does next after an answer that did not parse: it begins the
\* next attempt of the list, or with none left raises the parse error.
C12_ThenNext(c, d) ==
    \/ /\ c.i < Len(c.attempts)
       /\ d.attempts = c.attempts
       /\ d.i = c.i + 1
       /\ d.calls = <<>>
    \/ /\ c.i = Len(c.attempts)
       /\ d.pc = "raised"
       /\ d.result = c.last_error

\* C12: an answer of extract_jobs that is no valid JSON is not asked for
\* again and not slept for, even with "exceeded" in the parse error; the
\* error is recorded and the next attempt is begun, and after the last
\* attempt the parse error is the error raised.
C12_ParseFailureNotRetried ==
    /\ [](\A t \in Threads : call[t].parsed = "failed" => C12_ParseFailed(call[t]))
    /\ [][\A t \in Threads :
            (call[t].parsed = "failed" /\ call[t].pc = "loop" /\ call'[t] # call[t])
                => C12_ThenNext(call[t], call'[t])]_vars

\* C12 witness: the first attempt's answer did not parse, its error holds
\* the marker "exceeded", and the second attempt is under way.
C12_Witness ==
    \E t \in Threads :
        /\ call[t].i = 2
        /\ call[t].pc = "invoke"
        /\ call[t].last_error # PyNone
        /\ call[t].last_error.type = "OutputParserException"
        /\ call[t].last_error.att = 1
        /\ call[t].last_error.try = 1
        /\ Contains(call[t].last_error.msg, "exceeded")

\* The three tiers with the credential each one resolves to.
C13_Fast ==
    [provider |-> "groq",
     api_key |-> IF NonEmpty(Resolved(FastSlot)) THEN Resolved(FastSlot) ELSE Resolved(BaseSlot),
     model |-> "llama-3.1-8b-instant"]

C13_Heavy ==
    [provider |-> "groq",
     api_key |-> IF NonEmpty(Resolved(HeavySlot)) THEN Resolved(HeavySlot) ELSE Resolved(BaseSlot),
     model |-> "llama-3.3-70b-versatile"]

C13_Secondary ==
    [provider |-> "gemini", api_key |-> Resolved(GeminiSlot), model |-> "gemini-1.5-flash"]

\* A tier is available with a credential, the secondary one with its
\* package too.
C13_Available(a) == NonEmpty(a.api_key) /\ (a.provider = "gemini" => _HAS_GEMINI)

\* C13: the attempts of extract_jobs are the available tiers in the order
\* fast, heavy, secondary; those of write_mail the available tiers in the
\* order heavy, fast, secondary; either way every available tier is there
\* and the secondary one stands last.
C13_PriorityOrder ==
    \A t \in Threads :
        LET c == call[t]
        IN c.kind # "none" =>
              /\ c.kind = "extract" =>
                    c.attempts = SelectSeq(<<C13_Fast, C13_Heavy, C13_Secondary>>, C13_Available)
              /\ c.kind = "mail" =>
                    c.attempts = SelectSeq(<<C13_Heavy, C13_Fast, C13_Secondary>>, C13_Available)
              /\ { c.attempts[j] : j \in 1..Len(c.attempts) }
                    = { a \in {C13_Fast, C13_Heavy, C13_Secondary} : C13_Available(a) }
              /\ \A j \in 1..(Len(c.attempts) - 1) : c.attempts[j].provider = "groq"

\* C13 witness: write_mail entered with all three tiers, each with a key
\* of its own.
C13_Witness ==
    \E t \in Threads :
        /\ call[t].kind = "mail"
        /\ Len(call[t].attempts) = 3
        /\ call[t].attempts[1].model = "llama-3.3-70b-versatile"
        /\ call[t].attempts[1].api_key = PyStr("key-of-GROQ_API_KEY_HEAVY")
        /\ call[t].attempts[2].api_key = PyStr("key-of-GROQ_API_KEY_FAST")
        /\ call[t].attempts[3].provider = "gemini"

\* The client of the attempt last begun could not be built: no model call
\* and no sleep were made for it, its error is the one recorded, and the
\* call waits at the loop head or raised after the last attempt.
C14_NotBuilt(c) ==
    /\ c.calls = <<>>
    /\ c.slept = 0
    /\ c.parsed = "none"
    /\ c.pc \in {"loop", "raised"}
    /\ c.nfailed = c.i
    /\ c.last_error.att = c.i
    /\ c.last_error.try = 0
    /\ c.pc = "raised" => (c.i = Len(c.attempts) /\ c.result = c.last_error)

\* What a call does next after a client that could not be built: it begins
\* the next attempt of the list, or with none left raises that error.
C14_ThenNext(c, d) ==
    \/ /\ c.i < Len(c.attempts)
       /\ d.attempts = c.attempts
       /\ d.i = c.i + 1
    \/ /\ c.i = Len(c.attempts)
       /\ d.pc = "raised"
       /\ d.result = c.last_error

\* C14: a client that cannot be built fails its attempt and nothing more:
\* it is not built again, no model is invoked for it, the next attempt is
\* begun, and its error is raised only as the last error of a list whose
\* attempts all failed.
C14_InstantiationFailure ==
    /\ [](\A t \in Threads :
            /\ call[t].inst = "failed" => C14_NotBuilt(call[t])
            /\ (call[t].pc = "raised" /\ call[t].attempts # <<>> /\ call[t].result.try = 0)
                  => /\ call[t].i = Len(call[t].attempts)
                     /\ call[t].nfailed = Len(call[t].attempts)
                     /\ call[t].result.att = Len(call[t].attempts))
    /\ [][\A t \in Threads :
            (call[t].inst = "failed" /\ call[t].pc = "loop" /\ call'[t] # call[t])
                => C14_ThenNext(call[t], call'[t])]_vars

\* C14 witness: the first client could not be built ("client temporarily
\* unavailable" holds a retry marker), and the second attempt answered.
C14_Witness ==
    \E t \in Threads :
        /\ call[t].pc = "returned"
        /\ call[t].i = 2
        /\ call[t].last_error # PyNone
        /\ call[t].last_error.att = 1
        /\ call[t].last_error.try = 0
        /\ call[t].last_error.msg = "client temporarily unavailable"

\* Two instances built from the same configuration: equal but for identity.
C15_Same(a, b) == [a EXCEPT !.id = 0] = [b EXCEPT !.id = 0]

\* C15 as claimed: under every interleaving each constructor runs at most
\* once where it succeeds, and every request holds the instance the module
\* refers to.
C15_CreatedOnce ==
    /\ _chain # PyNone => chain_ctor_calls <= 1
    /\ _portfolio # PyNone => portfolio_ctor_calls <= 1
    /\ \A t \in Threads :
          /\ loc[t].chain # PyNone => loc[t].chain = _chain
          /\ loc[t].portfolio # PyNone => loc[t].portfolio = _portfolio

\* What holds in every state of concurrent handlers: a constructor that
\* succeeds ran at most once per thread, and the instance a request holds
\* equals the one the module refers to but for identity.
C15_AtMostOncePerThread ==
    /\ _chain # PyNone => chain_ctor_calls <= NumThreads
    /\ _portfolio # PyNone => portfolio_ctor_calls <= NumThreads
    /\ \A t \in Threads :
          /\ loc[t].chain # PyNone => (_chain # PyNone /\ C15_Same(loc[t].chain, _chain))
          /\ loc[t].portfolio # PyNone =>
                (_portfolio # PyNone /\ C15_Same(loc[t].portfolio, _portfolio))

\* C15 as amended: the check and the assignment of get_chain /
\* get_portfolio are not atomic, so requests that race on first use may
\* each construct; every instance is built from the same configuration,
\* the reference once set is never unset and only replaced by an equal
\* instance, and a request that finds it set takes it without constructing.
C15_BenignRace ==
    /\ []C15_AtMostOncePerThread
    /\ [][/\ _chain # PyNone => (_chain' # PyNone /\ C15_Same(_chain', _chain))
          /\ _portfolio # PyNone =>
                (_portfolio' # PyNone /\ C15_Same(_portfolio', _portfolio))
          /\ \A t \in Threads :
                /\ (pc[t] = "get_chain" /\ pc'[t] # pc[t] /\ _chain # PyNone)
                      => (pc'[t] = "get_portfolio" /\ loc'[t].chain = _chain
                          /\ chain_ctor_calls' = chain_ctor_calls)
                /\ (pc[t] = "get_portfolio" /\ pc'[t] # pc[t] /\ _portfolio # PyNone)
                      => (pc'[t] = "extract" /\ loc'[t].portfolio = _portfolio
                          /\ portfolio_ctor_calls' = portfolio_ctor_calls)]_vars

\* C15 witness: two requests raced on first use; each constructed a chain,
\* the first holds its own, the module refers to the second.
C15_Witness ==
    /\ chain_ctor_calls = 2
    /\ _chain # PyNone
    /\ _chain.id = 2
    /\ loc[1].chain # PyNone
    /\ loc[1].chain.id = 1
    /\ loc[2].chain = _chain

\* The field of a result for a key of the extracted record: the record's
\* value, or the handler's default.
C16_Field(job, key, default) == IF key \in DOMAIN job.v THEN job.v[key] ELSE default

\* Result row and write_mail argument i belong to extracted job i.
C16_Corresponds(l, i) ==
    LET job == l.jobs.v[i]
        row == l.results[i]
        arg == l.mailed[i]
    IN /\ row.role = C16_Field(job, "role", PyStr("Software Engineer"))
       /\ row.description = C16_Field(job, "description", PyStr(""))
       /\ row.experience = C16_Field(job, "experience", PyStr("N/A"))
       /\ row.email_markdown.t = "str"
       /\ \A key \in DOMAIN job.v \ {"tone", "cta"} : arg.v[key] = job.v[key]
       /\ arg.v["tone"] = l.tone
       /\ arg.v["cta"] = l.cta

\* C16: write_mail is entered only after the extraction returned, once per
\* job and in the jobs' order; a 200 answer comes after one call for each
\* job, its count is the number of results and of extracted jobs, result i
\* is that of job i, and an empty extraction answers 200 with count 0 and
\* without a write_mail call.
C16_OnePerJobInOrder ==
    \A t \in Threads :
        LET l == loc[t]
        IN /\ l.mailed # <<>> =>
                /\ l.jobs # PyNone
                /\ Len(l.mailed) <= Len(l.jobs.v)
                /\ Len(l.mailed) \in {Len(l.results), Len(l.results) + 1}
           /\ (pc[t] = "call" /\ call[t].kind = "mail") =>
                (l.jobs # PyNone /\ Len(l.mailed) = l.k /\ Len(l.results) = l.k - 1)
           /\ (resp[t] # PyNone /\ resp[t].status = 200) =>
                /\ l.jobs # PyNone
                /\ Len(l.mailed) = Len(l.jobs.v)
                /\ Len(resp[t].body.results) = Len(l.jobs.v)
                /\ resp[t].body.count = Len(resp[t].body.results)
                /\ resp[t].body.results = l.results
                /\ \A i \in 1..Len(l.jobs.v) : C16_Corresponds(l, i)
                /\ l.jobs.v = <<>> =>
                      /\ resp[t].body.count = 0
                      /\ l.mailed = <<>>
                      /\ call[t].kind = "extract"

\* C16 witness: a 200 answer for two different jobs, in their order.
C16_Witness ==
    \E t \in Threads :
        /\ resp[t] # PyNone
        /\ resp[t].status = 200
        /\ resp[t].body.count = 2
        /\ resp[t].body.results[1].role = PyStr("Backend Engineer")
        /\ resp[t].body.results[2].role = PyStr("Data Analyst")
        /\ Len(loc[t].mailed) = 2

C17_NoCsvMsg == "Could not find my_portfolio.csv."

\* A request answered with the error of a constructor found the singleton
\* unset and left it unset; a singleton that is set was set by the last
\* construction ever run.
C17_StaysUnset ==
    /\ _chain # PyNone => _chain.id = chain_ctor_calls
    /\ _portfolio # PyNone => _portfolio.id = portfolio_ctor_calls
    /\ \A t \in Threads :
          resp[t] # PyNone =>
             /\ resp[t].body = [error |-> NoKeyMsg] => (resp[t].status = 500 /\ _chain = PyNone)
             /\ resp[t].body = [error |-> C17_NoCsvMsg] =>
                   (resp[t].status = 500 /\ _portfolio = PyNone)

\* The steps of get_chain / get_portfolio: with the singleton unset the
\* constructor is run, and either raises, leaving it unset and answering
\* 500, or sets it; with the singleton set it is taken as it is.
C17_Construct(t) ==
    /\ (pc[t] = "get_chain" /\ pc'[t] # pc[t]) =>
          IF _chain = PyNone THEN pc'[t] = "new_chain"
          ELSE pc'[t] = "get_portfolio" /\ loc'[t].chain = _chain
    /\ (pc[t] = "new_chain" /\ pc'[t] # pc[t]) =>
          /\ chain_ctor_calls' = chain_ctor_calls + 1
          /\ \/ _chain' = PyNone /\ pc'[t] = "done" /\ resp'[t].status = 500
             \/ _chain' # PyNone /\ pc'[t] = "get_portfolio" /\ loc'[t].chain = _chain'
    /\ (pc[t] = "get_portfolio" /\ pc'[t] # pc[t]) =>
          IF _portfolio = PyNone THEN pc'[t] = "new_portfolio"
          ELSE pc'[t] = "extract" /\ loc'[t].portfolio = _portfolio
    /\ (pc[t] = "new_portfolio" /\ pc'[t] # pc[t]) =>
          /\ portfolio_ctor_calls' = portfolio_ctor_calls + 1
          /\ \/ _portfolio' = PyNone /\ pc'[t] = "done" /\ resp'[t].status = 500
             \/ _portfolio' # PyNone /\ pc'[t] = "extract" /\ loc'[t].portfolio = _portfolio'

\* C17: a constructor that raises leaves its singleton unset and the
\* request answers 500; the next request that reaches get_chain /
\* get_portfolio runs the constructor again; a singleton once set is never
\* written again and no constructor runs for it again.
C17_NoPoison ==
    /\ []C17_StaysUnset
    /\ [][/\ \A t \in Threads : C17_Construct(t)
          /\ _chain # PyNone => (_chain' = _chain /\ chain_ctor_calls' = chain_ctor_calls)
          /\ _portfolio # PyNone =>
                (_portfolio' = _portfolio /\ portfolio_ctor_calls' = portfolio_ctor_calls)]_vars

\* C17 witness: Portfolio() raised in the first request, the file was put
\* in place, and the second request constructed it.
C17_Witness ==
    /\ portfolio_ctor_calls = 2
    /\ _portfolio # PyNone
    /\ _portfolio.id = 2
    /\ chain_ctor_calls = 1
    /\ served[1] = 2
    /\ loc[1].portfolio = _portfolio

\* C18: extract_jobs and write_mail are entered only with the page fetched
\* and both singletons set and held by the request; with my_portfolio.csv
\* missing no call is ever entered, every request with a valid url answers
\* 500, and the answer that carries the loader's error comes after the
\* fetch and the chain's construction and before any extraction.
C18_BothSingletonsFirst ==
    /\ \A t \in Threads :
          call[t].kind # "none" =>
             /\ loc[t].text # PyNone
             /\ _chain # PyNone
             /\ _portfolio # PyNone
             /\ loc[t].chain = _chain
             /\ loc[t].portfolio = _portfolio
    /\ ~csv_exists =>
          /\ _portfolio = PyNone
          /\ \A t \in Threads :
                /\ call[t] = NoCall
                /\ loc[t].jobs = PyNone
                /\ (pc[t] = "done" /\ ValidBody(data[t])) =>
                      (resp[t] # PyNone /\ resp[t].status = 500)
                /\ (resp[t] # PyNone /\ resp[t].body = [error |-> "Could not find my_portfolio.csv."]) =>
                      /\ resp[t].status = 500
                      /\ loc[t].text # PyNone
                      /\ loc[t].chain # PyNone
                      /\ fetch_calls >= portfolio_ctor_calls

\* C18 witness: the file is missing; the second request fetched its page,
\* took the chain and failed in the loader like the first.
C18_Witness ==
    /\ ~csv_exists
    /\ resp[1] = Response(500, [error |-> "Could not find my_portfolio.csv."])
    /\ _chain # PyNone
    /\ fetch_calls = 2
    /\ portfolio_ctor_calls = 2
    /\ chain_ctor_calls = 1

====
